---- MODULE Spec2Model ----
(***************************************************************************)
(* A model of the accessor core of opendal:                                *)
(*   - the retry layer              (src/src/layers/retry.rs)              *)
(*   - the op-args constructors     (src/src/ops/op_delete.rs,             *)
(*                                   src/src/ops/op_multipart.rs)          *)
(*   - the azblob backend + builder (src/src/services/azblob/backend.rs)   *)
(* Each subsystem has its own variables, initial condition and next-state  *)
(* relation; a specification runs one subsystem and keeps the others in    *)
(* their quiescent state.                                                  *)
(***************************************************************************)
EXTENDS Integers, Sequences, FiniteSets, TLC

VARIABLES
    \* ---- retry layer: one RetryAccessor and one call on it
    backoff,      \* RetryAccessor.backoff: the schedule stored in the layer
    mock,         \* behaviour of the inner accessor during the call
    op,           \* the method of RetryAccessor being called, or "none"
    pc,           \* position of the call
    retry,        \* the call's own clone of the schedule (what is left of it)
    dur,          \* the delay taken from the schedule, 0 when none is held
    e,            \* blocking loops: `let mut e = None`
    calls,        \* inner invocations made by this call
    slept,        \* the delays this call has slept, in order
    result,       \* what the call returned
    readerGiven,  \* how often the body reader was handed to the inner accessor
    readerFailed, \* the reader a successful read returned has failed mid-stream
    args,         \* the op-args the caller gave to the call
    received,     \* the op-args the inner accessor received, one per invocation
    \* ---- retry layer: calls in flight at the same time on one RetryAccessor
    tasks,        \* per task: the position and the locals of its call
    \* ---- layer stacking and metadata
    innerMeta,    \* AccessorMetadata of the innermost accessor
    depth,        \* number of retry layers applied
    metaResult,   \* what the last metadata() call on the outermost accessor returned
    \* ---- op-args construction
    opArgs,       \* result of the last op-args constructor call
    \* ---- azblob backend and the blob service behind it
    root,         \* Backend.root
    blobs,        \* the service: keys of the blobs the container holds
    bcall,        \* the last Accessor call on the Backend and what it did
    \* ---- azblob Builder
    builder,      \* the Builder's fields
    built,        \* result of build(), when build() was the last call on the Builder
    shown,        \* Debug output of the Builder, when formatting it was the last call
    \* ---- Backend::from_iter
    pairs,        \* the (key, value) pairs given to from_iter
    made,         \* what from_iter returned for them
    \* ---- two retry layers stacked over a backend
    stackIn,      \* the two schedules, the backend's behaviour and the method called
    stackOut      \* what the call on the outer layer did

retryVars   == <<backoff, mock, op, pc, retry, dur, e, calls, slept, result, readerGiven,
                 readerFailed, args, received>>
callVars    == <<mock, op, pc, retry, dur, e, calls, slept, result, readerGiven, readerFailed,
                 args, received>>
taskVars    == <<tasks>>
layerVars   == <<innerMeta, depth, metaResult>>
opsVars     == <<opArgs>>
backendVars == <<root, blobs, bcall>>
builderVars == <<builder, built, shown>>
iterVars    == <<pairs, made>>
stackVars   == <<stackIn, stackOut>>
vars        == <<retryVars, taskVars, layerVars, opsVars, backendVars, builderVars, iterVars,
                 stackVars>>

notRetry   == <<taskVars, layerVars, opsVars, backendVars, builderVars, iterVars, stackVars>>
notTasks   == <<callVars, layerVars, opsVars, backendVars, builderVars, iterVars, stackVars>>
notLayer   == <<retryVars, taskVars, opsVars, backendVars, builderVars, iterVars, stackVars>>
notOps     == <<retryVars, taskVars, layerVars, backendVars, builderVars, iterVars, stackVars>>
notBackend == <<retryVars, taskVars, layerVars, opsVars, builderVars, iterVars, stackVars>>
notBuilder == <<retryVars, taskVars, layerVars, opsVars, backendVars, iterVars, stackVars>>
notIter    == <<retryVars, taskVars, layerVars, opsVars, backendVars, builderVars, stackVars>>
notStack   == <<retryVars, taskVars, layerVars, opsVars, backendVars, builderVars, iterVars>>

(***************************************************************************)
(* Bounds of the model.                                                    *)
(***************************************************************************)
MaxDelays == 3      \* longest backoff schedule
MaxFails  == 3      \* most leading Interrupted failures of the inner accessor
MaxDepth  == 3      \* most retry layers stacked
MaxPathLen == 3     \* longest path
MaxPartNumber == 2  \* part numbers are 0..MaxPartNumber
MaxSize   == 1      \* sizes are 0..MaxSize
MaxParts  == 2      \* longest list of completed parts
MaxEndpointLen == 2 \* longest endpoint given to the builder
MaxPairs  == 3      \* most (key, value) pairs given to from_iter

RECURSIVE SeqsUpTo(_, _)
SeqsUpTo(S, n) ==
    IF n = 0 THEN {<<>>}
    ELSE LET shorter == SeqsUpTo(S, n - 1)
         IN  shorter \cup {Append(s, x) : s \in {t \in shorter : Len(t) = n - 1}, x \in S}

(***************************************************************************)
(* Results.  A Result<T> is a record; errors carry their io::ErrorKind and *)
(* the number of the inner attempt that produced them, so that two errors  *)
(* of the same kind from different attempts are different values.          *)
(***************************************************************************)
ErrorKinds == {"Interrupted", "Other", "NotFound", "PermissionDenied", "TimedOut"}

None     == [tag |-> "none", kind |-> "-", n |-> 0]
Ok(n)    == [tag |-> "ok", kind |-> "-", n |-> n]
Err(k, n) == [tag |-> "err", kind |-> k, n |-> n]

IsOk(r)  == r.tag = "ok"
IsErr(r) == r.tag = "err"

(***************************************************************************)
(* The inner accessor of the retry layer.  Its behaviour during one call   *)
(* is an input: it fails with Interrupted on its first `fails` invocations *)
(* and answers `then` on every later one (the test's MockService answers   *)
(* the same on every invocation: fails = 0).                               *)
(***************************************************************************)
Terminals == {"Ok"} \cup ErrorKinds
Mocks == [fails : 0..MaxFails, then : Terminals]

InnerResult(m, k) ==
    IF k <= m.fails THEN Err("Interrupted", k)
    ELSE IF m.then = "Ok" THEN Ok(k) ELSE Err(m.then, k)

(***************************************************************************)
(* The backoff schedule: an iterator of delays, here the finite sequence   *)
(* of the delays it will yield.                                            *)
(***************************************************************************)
Durations == {1, 2}
Schedules == SeqsUpTo(Durations, MaxDelays)

(***************************************************************************)
(* The methods of RetryAccessor and what each does with its inner call.    *)
(***************************************************************************)
AsyncRetryOps ==
    {"create", "read", "stat", "delete", "list",
     "create_multipart", "complete_multipart", "abort_multipart"}
BlockingRetryOps ==
    {"blocking_create", "blocking_read", "blocking_stat", "blocking_delete", "blocking_list"}
PassOps == {"write", "write_multipart", "blocking_write", "presign", "metadata"}
ReaderOps == {"write", "write_multipart", "blocking_write"}
RetryOps == AsyncRetryOps \cup BlockingRetryOps
AllOps == RetryOps \cup PassOps

PolicyRetryWrites(o) ==
    IF o \in AsyncRetryOps \cup {"write", "write_multipart"} THEN "async_retry"
    ELSE IF o \in BlockingRetryOps \cup {"blocking_write"} THEN "blocking_retry"
    ELSE "pass"

Policy(o) ==
    IF o \in AsyncRetryOps THEN "async_retry"
    ELSE IF o \in BlockingRetryOps THEN "blocking_retry"
    ELSE "pass"

\* .when(|e| e.kind() == ErrorKind::Interrupted), and `kind == ErrorKind::Interrupted`
Retryable(err) == IsErr(err) /\ err.kind = "Interrupted"

(***************************************************************************)
(* Async form: `{ || self.inner.op(args) }.retry(self.backoff.clone())     *)
(* .when(..).await`.  After an inner result r, with `it` what is left of   *)
(* the call's schedule: return r when it is Ok or not retryable; otherwise *)
(* take the next delay, returning r when there is none and sleeping when   *)
(* there is one.                                                           *)
(***************************************************************************)
AsyncAfterNoGiveUp(r, it) ==
    IF IsOk(r) \/ ~Retryable(r)
    THEN [pc |-> "done", result |-> r, retry |-> it, dur |-> 0]
    ELSE [pc |-> "wait", result |-> None,
          retry |-> IF it = <<>> THEN it ELSE Tail(it), dur |-> 1]

AsyncAfterOneShort(r, it) ==
    IF IsOk(r) \/ ~Retryable(r) \/ Len(it) <= 1
    THEN [pc |-> "done", result |-> r, retry |-> it, dur |-> 0]
    ELSE [pc |-> "wait", result |-> None, retry |-> Tail(it), dur |-> Head(it)]

AsyncAfterRetriesOk(r, it) ==
    IF ~(IsOk(r) \/ Retryable(r)) \/ it = <<>>
    THEN [pc |-> "done", result |-> r, retry |-> it, dur |-> 0]
    ELSE [pc |-> "wait", result |-> None, retry |-> Tail(it), dur |-> Head(it)]

AsyncAfter(r, it) ==
    IF IsOk(r) \/ ~Retryable(r) \/ it = <<>>
    THEN [pc |-> "done", result |-> r, retry |-> it, dur |-> 0]
    ELSE [pc |-> "wait", result |-> None, retry |-> Tail(it), dur |-> Head(it)]

(***************************************************************************)
(* Blocking form: `for dur in retry { match self.inner.op(args) {..} }`    *)
(* followed by `Err(e.unwrap())`.  The delay is taken from the schedule at *)
(* the head of the loop, before the inner call.                            *)
(***************************************************************************)
\* the loop head: `for dur in retry`, and `Err(e.unwrap())` when it is exhausted
BlockingHead(it, err) ==
    IF it # <<>>
    THEN [pc |-> "attempt", result |-> None, retry |-> Tail(it), dur |-> Head(it)]
    ELSE IF err = None
    THEN [pc |-> "panic", result |-> None, retry |-> it, dur |-> 0]
    ELSE [pc |-> "done", result |-> err, retry |-> it, dur |-> 0]

BlockingAfterKeepsFirst(r, old) ==
    IF IsOk(r) THEN [pc |-> "done", result |-> r, e |-> old]
    ELSE IF Retryable(r) THEN [pc |-> "wait", result |-> None,
                               e |-> IF old = None THEN r ELSE old]
    ELSE [pc |-> "done", result |-> r, e |-> r]

\* the loop body after the inner call returned r
BlockingAfter(r, old) ==
    IF IsOk(r) THEN [pc |-> "done", result |-> r, e |-> old]
    ELSE IF Retryable(r) THEN [pc |-> "wait", result |-> None, e |-> r]
    ELSE [pc |-> "done", result |-> r, e |-> r]

\* the tasks that may call the accessor at the same time, and a task not calling
Tasks == {1, 2}
IdleTask ==
    [pc |-> "idle", op |-> "none", mock |-> [fails |-> 0, then |-> "Ok"],
     retry |-> <<>>, dur |-> 0, e |-> None, calls |-> 0, slept |-> <<>>,
     result |-> None, cancelled |-> FALSE]

BackoffCloneLosesDelay(b) == IF b = <<>> THEN b ELSE Tail(b)

\* `self.backoff.clone()`: the call's own copy of the stored schedule
BackoffClone(b) == b

\* the op-args a caller gives: a path and a payload (a size, an upload id, ..)
CallerArgs ==
    {[tag |-> "args", path |-> <<"a">>, payload |-> 0],
     [tag |-> "args", path |-> <<"a", "/">>, payload |-> 1]}

ForwardDropsPayload(a) == [a EXCEPT !.payload = 0]

\* `self.inner.op(args)`: what the inner accessor is given when the layer was
\* given a
Forward(a) == a

(***************************************************************************)
(* Actions of one call on the RetryAccessor.                               *)
(***************************************************************************)
\* entering a retried async method: the schedule is cloned, the closure is called
CallAsync(o, m) ==
    /\ pc = "idle" /\ Policy(o) = "async_retry"
    /\ op' = o /\ mock' = m
    /\ retry' = BackoffClone(backoff) /\ dur' = 0 /\ e' = None
    /\ calls' = 0 /\ slept' = <<>> /\ result' = None /\ readerGiven' = 0
    /\ readerFailed' = FALSE
    /\ args' \in CallerArgs /\ received' = <<>>
    /\ pc' = "attempt"
    /\ UNCHANGED <<backoff, notRetry>>

\* the inner future completes
AsyncAttempt ==
    /\ pc = "attempt" /\ Policy(op) = "async_retry"
    /\ LET r == InnerResult(mock, calls + 1)
           n == AsyncAfter(r, retry)
       IN  /\ calls' = calls + 1
           /\ readerGiven' = IF op \in ReaderOps THEN readerGiven + 1 ELSE readerGiven
           /\ received' = Append(received, Forward(args))
           /\ pc' = n.pc /\ result' = n.result /\ retry' = n.retry /\ dur' = n.dur
    /\ UNCHANGED <<backoff, mock, op, e, slept, readerFailed, args, notRetry>>

\* the sleep between two attempts completes
AsyncSleep ==
    /\ pc = "wait" /\ Policy(op) = "async_retry"
    /\ slept' = Append(slept, dur)
    /\ dur' = 0
    /\ pc' = "attempt"
    /\ UNCHANGED <<backoff, mock, op, retry, e, calls, result, readerGiven, readerFailed,
                   args, received, notRetry>>

\* entering a retried blocking method: `let retry = self.backoff.clone(); let mut e = None;`
CallBlocking(o, m) ==
    /\ pc = "idle" /\ Policy(o) = "blocking_retry"
    /\ op' = o /\ mock' = m
    /\ retry' = BackoffClone(backoff) /\ dur' = 0 /\ e' = None
    /\ calls' = 0 /\ slept' = <<>> /\ result' = None /\ readerGiven' = 0
    /\ readerFailed' = FALSE
    /\ args' \in CallerArgs /\ received' = <<>>
    /\ pc' = "head"
    /\ UNCHANGED <<backoff, notRetry>>

BlockingNext ==
    /\ pc = "head" /\ Policy(op) = "blocking_retry"
    /\ LET n == BlockingHead(retry, e)
       IN  pc' = n.pc /\ result' = n.result /\ retry' = n.retry /\ dur' = n.dur
    /\ UNCHANGED <<backoff, mock, op, e, calls, slept, readerGiven, readerFailed,
                   args, received, notRetry>>

BlockingAttempt ==
    /\ pc = "attempt" /\ Policy(op) = "blocking_retry"
    /\ LET r == InnerResult(mock, calls + 1)
           n == BlockingAfter(r, e)
       IN  /\ calls' = calls + 1
           /\ readerGiven' = IF op \in ReaderOps THEN readerGiven + 1 ELSE readerGiven
           /\ received' = Append(received, Forward(args))
           /\ pc' = n.pc /\ result' = n.result /\ e' = n.e
    /\ UNCHANGED <<backoff, mock, op, retry, dur, slept, readerFailed, args, notRetry>>

\* sleep(dur); continue
BlockingSleep ==
    /\ pc = "wait" /\ Policy(op) = "blocking_retry"
    /\ slept' = Append(slept, dur)
    /\ pc' = "head"
    /\ UNCHANGED <<backoff, mock, op, retry, dur, e, calls, result, readerGiven, readerFailed,
                   args, received, notRetry>>

\* write, write_multipart, blocking_write, presign, metadata: `self.inner.op(..)`
CallPass(o, m) ==
    /\ pc = "idle" /\ Policy(o) = "pass"
    /\ op' = o /\ mock' = m
    /\ retry' = <<>> /\ dur' = 0 /\ e' = None /\ slept' = <<>>
    /\ calls' = 1
    /\ readerGiven' = IF o \in ReaderOps THEN 1 ELSE 0
    /\ readerFailed' = FALSE
    \* metadata() takes no argument
    /\ IF o = "metadata" THEN args' = None /\ received' = <<>>
       ELSE \E a \in CallerArgs : args' = a /\ received' = <<Forward(a)>>
    \* metadata() returns AccessorMetadata, not a Result: it cannot fail
    /\ result' = IF o = "metadata" THEN Ok(1) ELSE InnerResult(m, 1)
    /\ pc' = "done"
    /\ UNCHANGED <<backoff, notRetry>>

\* read / blocking_read returned Ok(reader): `Ok(v) => return Ok(v)`, the inner
\* accessor's reader itself.  The caller reads from it and it fails mid-stream;
\* no method of the RetryAccessor is running.
ReaderFails ==
    /\ pc = "done" /\ op \in {"read", "blocking_read"} /\ IsOk(result)
    /\ ~readerFailed
    /\ readerFailed' = TRUE
    /\ UNCHANGED <<backoff, mock, op, pc, retry, dur, e, calls, slept, result, readerGiven,
                   args, received, notRetry>>

\* the caller has the result (or the panic has unwound); the accessor is called again
Return ==
    /\ pc \in {"done", "panic"}
    /\ pc' = "idle" /\ op' = "none"
    /\ mock' = [fails |-> 0, then |-> "Ok"]
    /\ retry' = <<>> /\ dur' = 0 /\ e' = None
    /\ calls' = 0 /\ slept' = <<>> /\ result' = None /\ readerGiven' = 0
    /\ readerFailed' = FALSE
    /\ args' = None /\ received' = <<>>
    /\ UNCHANGED <<backoff, notRetry>>

RetryNext ==
    \/ \E o \in AllOps, m \in Mocks : CallAsync(o, m)
    \/ AsyncAttempt
    \/ AsyncSleep
    \/ \E o \in AllOps, m \in Mocks : CallBlocking(o, m)
    \/ BlockingNext
    \/ BlockingAttempt
    \/ BlockingSleep
    \/ \E o \in AllOps, m \in Mocks : CallPass(o, m)
    \/ ReaderFails
    \/ Return

(***************************************************************************)
(* The retry layer alone: a RetryAccessor with some schedule, called again *)
(* and again; the other subsystems rest.                                   *)
(***************************************************************************)
InitRetry ==
    /\ backoff \in Schedules
    /\ mock = [fails |-> 0, then |-> "Ok"]
    /\ op = "none" /\ pc = "idle"
    /\ retry = <<>> /\ dur = 0 /\ e = None
    /\ calls = 0 /\ slept = <<>> /\ result = None /\ readerGiven = 0
    /\ readerFailed = FALSE
    /\ args = None /\ received = <<>>
    /\ stackIn = None /\ stackOut = None
    /\ tasks = [t \in Tasks |-> IdleTask]
    /\ shown = None /\ pairs = <<>> /\ made = None
    /\ innerMeta = None /\ depth = 0 /\ metaResult = None
    /\ opArgs = None
    /\ root = <<"/">> /\ blobs = {} /\ bcall = None
    /\ builder = None /\ built = None

SpecRetry == InitRetry /\ [][RetryNext]_vars

\* The same, with what the scheduling of a call guarantees: an inner invocation
\* returns, a sleep ends, and a blocking loop goes on to its next statement.
\* Nothing obliges the caller to take the result or to call again.
RetryFairness ==
    /\ WF_vars(AsyncAttempt) /\ WF_vars(AsyncSleep)
    /\ WF_vars(BlockingNext) /\ WF_vars(BlockingAttempt) /\ WF_vars(BlockingSleep)

SpecRetryLive == InitRetry /\ [][RetryNext]_vars /\ RetryFairness

(***************************************************************************)
(* Calls in flight at the same time.  The methods take `&self`: any number *)
(* of tasks may be inside the same RetryAccessor, each with its own clone  *)
(* of the schedule and its own locals.  An async call is a future: the     *)
(* caller may drop it at an await point (the inner call, or the sleep).    *)
(***************************************************************************)
TaskOps == {"list", "blocking_list"}
TaskMocks == [fails : 0..MaxFails, then : {"Ok", "Interrupted", "Other"}]
TaskSchedules == {b \in Schedules : \A i \in 1..Len(b) : b[i] = 1}

TaskCallAsync(t, o, m) ==
    /\ tasks[t].pc = "idle" /\ Policy(o) = "async_retry"
    /\ tasks' = [tasks EXCEPT ![t] =
                    [IdleTask EXCEPT !.pc = "attempt", !.op = o, !.mock = m,
                                     !.retry = BackoffClone(backoff)]]
    /\ UNCHANGED <<backoff, notTasks>>

TaskAsyncAttempt(t) ==
    /\ tasks[t].pc = "attempt" /\ Policy(tasks[t].op) = "async_retry"
    /\ LET k == tasks[t].calls + 1
           n == AsyncAfter(InnerResult(tasks[t].mock, k), tasks[t].retry)
       IN  tasks' = [tasks EXCEPT ![t].calls = k, ![t].pc = n.pc, ![t].result = n.result,
                                  ![t].retry = n.retry, ![t].dur = n.dur]
    /\ UNCHANGED <<backoff, notTasks>>

TaskAsyncSleep(t) ==
    /\ tasks[t].pc = "wait" /\ Policy(tasks[t].op) = "async_retry"
    /\ tasks' = [tasks EXCEPT ![t].slept = Append(@, tasks[t].dur), ![t].dur = 0,
                              ![t].pc = "attempt"]
    /\ UNCHANGED <<backoff, notTasks>>

TaskCallBlocking(t, o, m) ==
    /\ tasks[t].pc = "idle" /\ Policy(o) = "blocking_retry"
    /\ tasks' = [tasks EXCEPT ![t] =
                    [IdleTask EXCEPT !.pc = "head", !.op = o, !.mock = m,
                                     !.retry = BackoffClone(backoff)]]
    /\ UNCHANGED <<backoff, notTasks>>

TaskBlockingNext(t) ==
    /\ tasks[t].pc = "head" /\ Policy(tasks[t].op) = "blocking_retry"
    /\ LET n == BlockingHead(tasks[t].retry, tasks[t].e)
       IN  tasks' = [tasks EXCEPT ![t].pc = n.pc, ![t].result = n.result,
                                  ![t].retry = n.retry, ![t].dur = n.dur]
    /\ UNCHANGED <<backoff, notTasks>>

TaskBlockingAttempt(t) ==
    /\ tasks[t].pc = "attempt" /\ Policy(tasks[t].op) = "blocking_retry"
    /\ LET k == tasks[t].calls + 1
           n == BlockingAfter(InnerResult(tasks[t].mock, k), tasks[t].e)
       IN  tasks' = [tasks EXCEPT ![t].calls = k, ![t].pc = n.pc, ![t].result = n.result,
                                  ![t].e = n.e]
    /\ UNCHANGED <<backoff, notTasks>>

TaskBlockingSleep(t) ==
    /\ tasks[t].pc = "wait" /\ Policy(tasks[t].op) = "blocking_retry"
    /\ tasks' = [tasks EXCEPT ![t].slept = Append(@, tasks[t].dur), ![t].pc = "head"]
    /\ UNCHANGED <<backoff, notTasks>>

AfterCancelDetached(task) == [task EXCEPT !.cancelled = TRUE]

\* the future of an async call is dropped: with it the closure, the pending
\* inner future or sleep, and the call's clone of the schedule
AfterCancel(task) ==
    [task EXCEPT !.pc = "cancelled", !.cancelled = TRUE, !.retry = <<>>, !.dur = 0]

TaskCancel(t) ==
    /\ tasks[t].pc \in {"attempt", "wait"} /\ Policy(tasks[t].op) = "async_retry"
    /\ ~tasks[t].cancelled
    /\ tasks' = [tasks EXCEPT ![t] = AfterCancel(tasks[t])]
    /\ UNCHANGED <<backoff, notTasks>>

\* the task is through with its call and may call again
TaskReturn(t) ==
    /\ tasks[t].pc \in {"done", "panic", "cancelled"}
    /\ tasks' = [tasks EXCEPT ![t] = IdleTask]
    /\ UNCHANGED <<backoff, notTasks>>

TasksNext ==
    \/ \E t \in Tasks, o \in TaskOps, m \in TaskMocks : TaskCallAsync(t, o, m)
    \/ \E t \in Tasks : TaskAsyncAttempt(t)
    \/ \E t \in Tasks : TaskAsyncSleep(t)
    \/ \E t \in Tasks, o \in TaskOps, m \in TaskMocks : TaskCallBlocking(t, o, m)
    \/ \E t \in Tasks : TaskBlockingNext(t)
    \/ \E t \in Tasks : TaskBlockingAttempt(t)
    \/ \E t \in Tasks : TaskBlockingSleep(t)
    \/ \E t \in Tasks : TaskCancel(t)
    \/ \E t \in Tasks : TaskReturn(t)

InitTasks ==
    /\ backoff \in TaskSchedules
    /\ tasks = [t \in Tasks |-> IdleTask]
    /\ mock = [fails |-> 0, then |-> "Ok"]
    /\ op = "none" /\ pc = "idle"
    /\ retry = <<>> /\ dur = 0 /\ e = None
    /\ calls = 0 /\ slept = <<>> /\ result = None /\ readerGiven = 0
    /\ readerFailed = FALSE
    /\ args = None /\ received = <<>>
    /\ stackIn = None /\ stackOut = None
    /\ innerMeta = None /\ depth = 0 /\ metaResult = None
    /\ opArgs = None
    /\ root = <<"/">> /\ blobs = {} /\ bcall = None
    /\ builder = None /\ built = None
    /\ shown = None /\ pairs = <<>> /\ made = None

SpecTasks == InitTasks /\ [][TasksNext]_vars

(***************************************************************************)
(* Op-args.  A path is a string, here the sequence of its characters.  A   *)
(* constructor returns io::Result<Self>: the value, or the error           *)
(* other(ObjectError::new(operation, path, "Is a directory")).             *)
(***************************************************************************)
Chars == {"a", "/"}
Paths == SeqsUpTo(Chars, MaxPathLen)
UploadIds == {"u1", "u2"}
ObjectParts == [part_number : 1..MaxPartNumber, etag : {"e"}]
PartLists == SeqsUpTo(ObjectParts, MaxParts)

\* path.ends_with('/')
EndsWithSlash(path) == Len(path) > 0 /\ path[Len(path)] = "/"

OpValue(operation, path, upload_id, part_number, size, parts) ==
    [tag |-> "ok", op |-> operation, path |-> path, upload_id |-> upload_id,
     part_number |-> part_number, size |-> size, parts |-> parts,
     kind |-> "-", msg |-> "-"]

IsADirectory(operation, path) ==
    [tag |-> "err", op |-> operation, path |-> path, upload_id |-> "-",
     part_number |-> 0, size |-> 0, parts |-> <<>>,
     kind |-> "Other", msg |-> "Is a directory"]

\* OpDelete::new: no check of the path
OpDeleteNew(path) == OpValue("Delete", path, "-", 0, 0, <<>>)

OpCreateMultipartNew(path) ==
    IF EndsWithSlash(path) THEN IsADirectory("CreateMultipart", path)
    ELSE OpValue("CreateMultipart", path, "-", 0, 0, <<>>)

OpWriteMultipartNew(path, upload_id, part_number, size) ==
    IF EndsWithSlash(path) THEN IsADirectory("WriteMultipart", path)
    ELSE OpValue("WriteMultipart", path, upload_id, part_number, size, <<>>)

RECURSIVE Reversed(_)
Reversed(q) == IF q = <<>> THEN <<>> ELSE Append(Reversed(Tail(q)), Head(q))

OpCompleteMultipartReorders(path, upload_id, parts) ==
    IF EndsWithSlash(path) THEN IsADirectory("CompleteMultipart", path)
    ELSE OpValue("CompleteMultipart", path, upload_id, 0, 0, Reversed(parts))

OpCompleteMultipartNew(path, upload_id, parts) ==
    IF EndsWithSlash(path) THEN IsADirectory("CompleteMultipart", path)
    ELSE OpValue("CompleteMultipart", path, upload_id, 0, 0, parts)

OpAbortMultipartNoCheck(path, upload_id) ==
    OpValue("AbortMultipart", path, upload_id, 0, 0, <<>>)

OpAbortMultipartNew(path, upload_id) ==
    IF EndsWithSlash(path) THEN IsADirectory("AbortMultipart", path)
    ELSE OpValue("AbortMultipart", path, upload_id, 0, 0, <<>>)

\* the arguments a constructor was called with, kept beside what it returned
Given(path, upload_id, part_number, size, parts) ==
    [given |-> [path |-> path, upload_id |-> upload_id, part_number |-> part_number,
                size |-> size, parts |-> parts]]

\* the getters of an op-args value: path(), upload_id(), part_number(), size(), parts()
Getters(v) ==
    [path |-> v.path, upload_id |-> v.upload_id, part_number |-> v.part_number,
     size |-> v.size, parts |-> v.parts]

NewOpDelete ==
    /\ \E path \in Paths :
          opArgs' = OpDeleteNew(path) @@ Given(path, "-", 0, 0, <<>>)
    /\ UNCHANGED notOps

NewOpCreateMultipart ==
    /\ \E path \in Paths :
          opArgs' = OpCreateMultipartNew(path) @@ Given(path, "-", 0, 0, <<>>)
    /\ UNCHANGED notOps

NewOpWriteMultipart ==
    /\ \E path \in Paths, u \in UploadIds, n \in 0..MaxPartNumber, sz \in 0..MaxSize :
          opArgs' = OpWriteMultipartNew(path, u, n, sz) @@ Given(path, u, n, sz, <<>>)
    /\ UNCHANGED notOps

NewOpCompleteMultipart ==
    /\ \E path \in Paths, u \in UploadIds, parts \in PartLists :
          opArgs' = OpCompleteMultipartNew(path, u, parts) @@ Given(path, u, 0, 0, parts)
    /\ UNCHANGED notOps

NewOpAbortMultipart ==
    /\ \E path \in Paths, u \in UploadIds :
          opArgs' = OpAbortMultipartNew(path, u) @@ Given(path, u, 0, 0, <<>>)
    /\ UNCHANGED notOps

OpsNext ==
    \/ NewOpDelete
    \/ NewOpCreateMultipart
    \/ NewOpWriteMultipart
    \/ NewOpCompleteMultipart
    \/ NewOpAbortMultipart

InitOps ==
    /\ opArgs = None
    /\ backoff = <<>>
    /\ mock = [fails |-> 0, then |-> "Ok"]
    /\ op = "none" /\ pc = "idle"
    /\ retry = <<>> /\ dur = 0 /\ e = None
    /\ calls = 0 /\ slept = <<>> /\ result = None /\ readerGiven = 0
    /\ readerFailed = FALSE
    /\ args = None /\ received = <<>>
    /\ stackIn = None /\ stackOut = None
    /\ tasks = [t \in Tasks |-> IdleTask]
    /\ shown = None /\ pairs = <<>> /\ made = None
    /\ innerMeta = None /\ depth = 0 /\ metaResult = None
    /\ root = <<"/">> /\ blobs = {} /\ bcall = None
    /\ builder = None /\ built = None

SpecOps == InitOps /\ [][OpsNext]_vars

(***************************************************************************)
(* Layer stacking.  RetryLayer::layer wraps an accessor in a RetryAccessor;*)
(* RetryAccessor::metadata is `self.inner.metadata()`.                     *)
(***************************************************************************)
Capabilities == {"Read", "Write", "List", "Presign", "Multipart", "Blocking"}
Schemes == {"azblob", "fs"}
AccessorMetadatas == [tag : {"meta"}, scheme : Schemes, capabilities : SUBSET Capabilities]

RetryMetadataAdvertisesBlocking(inner) ==
    [inner EXCEPT !.capabilities = @ \cup {"Blocking"}]

\* RetryAccessor::metadata, given what self.inner.metadata() returned
RetryMetadata(inner) == inner

\* metadata() of the accessor under d retry layers
RECURSIVE StackMetadata(_, _)
StackMetadata(d, innermost) ==
    IF d = 0 THEN innermost ELSE RetryMetadata(StackMetadata(d - 1, innermost))

\* Operator::layer(RetryLayer::new(b)): one more RetryAccessor around the stack
ApplyRetryLayer ==
    /\ depth < MaxDepth
    /\ depth' = depth + 1
    /\ UNCHANGED <<innerMeta, metaResult, notLayer>>

CallMetadata ==
    /\ metaResult' = [meta |-> StackMetadata(depth, innerMeta), layers |-> depth]
    /\ UNCHANGED <<innerMeta, depth, notLayer>>

LayerNext ==
    \/ ApplyRetryLayer
    \/ CallMetadata

InitLayer ==
    /\ innerMeta \in AccessorMetadatas
    /\ depth = 0
    /\ metaResult = None
    /\ opArgs = None
    /\ backoff = <<>>
    /\ mock = [fails |-> 0, then |-> "Ok"]
    /\ op = "none" /\ pc = "idle"
    /\ retry = <<>> /\ dur = 0 /\ e = None
    /\ calls = 0 /\ slept = <<>> /\ result = None /\ readerGiven = 0
    /\ readerFailed = FALSE
    /\ args = None /\ received = <<>>
    /\ stackIn = None /\ stackOut = None
    /\ tasks = [t \in Tasks |-> IdleTask]
    /\ shown = None /\ pairs = <<>> /\ made = None
    /\ root = <<"/">> /\ blobs = {} /\ bcall = None
    /\ builder = None /\ built = None

SpecLayer == InitLayer /\ [][LayerNext]_vars

(***************************************************************************)
(* The azblob Backend and the blob service behind it.                      *)
(***************************************************************************)
StatusOK             == 200
StatusCreated        == 201
StatusAccepted       == 202
StatusPartialContent == 206
StatusNotFound       == 404
\* every status the service is taken to answer with
Statuses ==
    {StatusOK, StatusCreated, StatusAccepted, StatusPartialContent, StatusNotFound,
     403, 503}

\* Backend.root: "/" or "/r/"
Roots == {<<"/">>, <<"/", "r", "/">>}

\* the normalized paths given to the backend: the root, a file, a directory
NormalizedPaths == {<<"/">>, <<"a">>, <<"a", "/">>}

\* the sizes an OpWrite declares
WriteSizes == {0, 1}

\* crate::path::build_abs_path: the root without its leading '/', then the path
BuildAbsPath(r, path) == IF path = <<"/">> THEN Tail(r) ELSE Tail(r) \o path

NoMeta ==
    [mode |-> "-", content_length |-> "absent", etag |-> "absent",
     content_md5 |-> "absent", last_modified |-> "absent"]
\* (n: the u64 a write returns, 0 elsewhere)
BOk(meta)  == [tag |-> "ok", kind |-> "-", meta |-> meta, n |-> 0]
BErr(kind) == [tag |-> "err", kind |-> kind, meta |-> NoMeta, n |-> 0]

\* How far a request gets: building it fails, signing it fails, sending it
\* fails, or it is sent and answered.
\* ("none": the call returned without building a request)
RequestStages == {"none", "build_fail", "sign_fail", "send_fail", "sent"}
SendsUnsigned(stage) == IF stage \in {"sign_fail", "send_fail", "sent"} THEN 1 ELSE 0

\* every request is made by `Request::..body(..)?`, then `self.signer.sign(&mut req)?`,
\* then `self.client.send_async(req).await?`: a step is reached only when the
\* steps before it succeeded
Signs(stage) == IF stage \in {"none", "build_fail"} THEN 0 ELSE 1
Sends(stage) == IF stage \in {"send_fail", "sent"} THEN 1 ELSE 0
\* kinds a transport failure (sending, or reading a response body) may carry
TransportKinds == {"Interrupted", "Other"}
\* the ways a request fails before any answer (a transport failure has a kind)
RequestFailures ==
    [stage : {"build_fail", "sign_fail"}, kind : {"-"}]
        \cup [stage : {"send_fail"}, kind : TransportKinds]
\* new_request_build_error / new_request_sign_error / new_request_send_error
RequestError(stage, tkind) ==
    IF stage = "send_fail" THEN BErr(tkind) ELSE BErr("Other")

\* super::error::parse_error: the error kind for a response status
ParseErrorKind(status) ==
    IF status = StatusNotFound THEN "NotFound"
    ELSE IF status = 403 THEN "PermissionDenied"
    ELSE IF status = 503 THEN "Interrupted"
    ELSE "Other"

\* `let er = parse_error_response(resp).await?; Err(parse_error(op, path, er))`:
\* an error either way; reading the body may itself fail (bodyOk = FALSE)
\* (body readable; or not, with the kind of the failure)
BodyReads == {[ok |-> TRUE, kind |-> "-"]} \cup [ok : {FALSE}, kind : TransportKinds]
ErrorResponse(status, bodyOk, tkind) ==
    IF bodyOk THEN BErr(ParseErrorKind(status)) ELSE BErr(tkind)

\* What the service answers, and the blobs it holds afterwards.  A request it
\* serves is answered by its state; any request may also be refused or fail
\* with another status, which changes nothing.
ServiceAnswers(method, key, held) ==
    LET served ==
          IF method = "PUT"
          THEN {[status |-> st, blobs |-> held \cup {key}] : st \in {StatusCreated, StatusOK}}
          ELSE IF method = "DELETE"
          THEN {IF key \in held THEN [status |-> StatusAccepted, blobs |-> held \ {key}]
                ELSE [status |-> StatusNotFound, blobs |-> held]}
          ELSE IF method = "LIST"
          THEN {[status |-> StatusOK, blobs |-> held]}
          ELSE {IF key \in held THEN [status |-> StatusOK, blobs |-> held]
                ELSE [status |-> StatusNotFound, blobs |-> held]}
        normal ==
          IF method = "PUT" THEN {StatusCreated, StatusOK}
          ELSE IF method = "DELETE" THEN {StatusAccepted, StatusNotFound}
          ELSE IF method = "LIST" THEN {StatusOK}
          ELSE {StatusOK, StatusNotFound}
    IN  served \cup {[status |-> st, blobs |-> held] : st \in Statuses \ normal}

\* the response headers stat reads: each absent, well-formed, or malformed
HeaderStates == {"absent", "ok", "bad"}
Headers == [content_length : HeaderStates, etag : HeaderStates, last_modified : HeaderStates]
NoHeaders == [content_length |-> "absent", etag |-> "absent", last_modified |-> "absent"]

\* the record of one call: `stage` is how far its request got
BCall(o, path, stage, status, again, res) ==
    [tag |-> "call", op |-> o, path |-> path, stage |-> stage,
     signs |-> Signs(stage), sends |-> Sends(stage),
     status |-> status, headers |-> NoHeaders, again |-> again, result |-> res,
     \* whether the response body, when read, was read to its end; OpWrite.size
     body |-> "-", size |-> 0]

\* ---- Backend::stat
StatRootNever(path) == FALSE

\* `if args.path() == "/"`
StatRoot(path) == path = <<"/">>

StatDirOn404Never(abs) == FALSE

\* `StatusCode::NOT_FOUND if p.ends_with('/')`
StatDirOn404(abs) == EndsWithSlash(abs)

\* `match status { .. }` of stat on the response to HEAD
StatResponse(abs, status, headers, bodyOk, tkind) ==
    IF status = StatusOK
    THEN IF "bad" \in {headers.content_length, headers.etag, headers.last_modified}
         THEN BErr("Other")
         ELSE BOk([mode |-> IF EndsWithSlash(abs) THEN "DIR" ELSE "FILE",
                   content_length |-> headers.content_length,
                   etag |-> headers.etag,
                   content_md5 |-> headers.etag,
                   last_modified |-> headers.last_modified])
    ELSE IF status = StatusNotFound /\ StatDirOn404(abs)
    THEN BOk([NoMeta EXCEPT !.mode = "DIR"])
    ELSE ErrorResponse(status, bodyOk, tkind)

BackendStat ==
    \E path \in NormalizedPaths :
       LET abs == BuildAbsPath(root, path) IN
       /\ IF StatRoot(path)
          THEN /\ bcall' = BCall("stat", path, "none", 0, FALSE,
                                 BOk([NoMeta EXCEPT !.mode = "DIR"]))
               /\ blobs' = blobs
          ELSE \/ \E f \in RequestFailures :
                     /\ bcall' = BCall("stat", path, f.stage, 0, FALSE, RequestError(f.stage, f.kind))
                     /\ blobs' = blobs
               \/ \E ans \in ServiceAnswers("HEAD", abs, blobs) :
                  \E headers \in IF ans.status = StatusOK THEN Headers ELSE {NoHeaders},
                     body \in IF ans.status = StatusOK THEN {[ok |-> TRUE, kind |-> "-"]}
                              ELSE BodyReads :
                     /\ bcall' = [BCall("stat", path, "sent", ans.status, FALSE,
                                        StatResponse(abs, ans.status, headers, body.ok, body.kind))
                                     EXCEPT !.headers = headers]
                     /\ blobs' = ans.blobs
       /\ UNCHANGED <<root, notBackend>>

\* ---- Backend::delete
DeleteOkOnlyAccepted(status) == status = StatusAccepted

\* `StatusCode::ACCEPTED | StatusCode::NOT_FOUND => Ok(())`
DeleteOk(status) == status \in {StatusAccepted, StatusNotFound}

DeleteResponse(status, bodyOk, tkind) ==
    IF DeleteOk(status) THEN BOk(NoMeta) ELSE ErrorResponse(status, bodyOk, tkind)

BackendDelete ==
    \E path \in NormalizedPaths :
       LET abs == BuildAbsPath(root, path)
           again == /\ bcall.tag = "call" /\ bcall.op = "delete" /\ bcall.path = path
                    /\ bcall.result.tag = "ok" /\ bcall.status = StatusAccepted
       IN
       /\ \/ \E f \in RequestFailures :
                /\ bcall' = BCall("delete", path, f.stage, 0, again, RequestError(f.stage, f.kind))
                /\ blobs' = blobs
          \/ \E ans \in ServiceAnswers("DELETE", abs, blobs),
                body \in BodyReads :
                /\ bcall' = BCall("delete", path, "sent", ans.status, again,
                                  DeleteResponse(ans.status, body.ok, body.kind))
                /\ blobs' = ans.blobs
       /\ UNCHANGED <<root, notBackend>>

\* ---- Backend::create
CreateResponse(status, bodyOk, tkind) ==
    IF status \in {StatusCreated, StatusOK}
    THEN IF bodyOk THEN BOk(NoMeta) ELSE BErr(tkind)
    ELSE ErrorResponse(status, bodyOk, tkind)

BackendCreate ==
    \E path \in NormalizedPaths :
       LET abs == BuildAbsPath(root, path) IN
       /\ \/ \E f \in RequestFailures :
                /\ bcall' = BCall("create", path, f.stage, 0, FALSE, RequestError(f.stage, f.kind))
                /\ blobs' = blobs
          \/ \E ans \in ServiceAnswers("PUT", abs, blobs),
                body \in BodyReads :
                /\ bcall' = [BCall("create", path, "sent", ans.status, FALSE,
                                   CreateResponse(ans.status, body.ok, body.kind))
                                EXCEPT !.body = IF body.ok THEN "ok" ELSE "failed"]
                /\ blobs' = ans.blobs
       /\ UNCHANGED <<root, notBackend>>

\* ---- Backend::read (get_blob)
ReadResponse(status, bodyOk, tkind) ==
    IF status \in {StatusOK, StatusPartialContent} THEN BOk(NoMeta)
    ELSE ErrorResponse(status, bodyOk, tkind)

BackendRead ==
    \E path \in NormalizedPaths :
       LET abs == BuildAbsPath(root, path) IN
       /\ \/ \E f \in RequestFailures :
                /\ bcall' = BCall("read", path, f.stage, 0, FALSE, RequestError(f.stage, f.kind))
                /\ blobs' = blobs
          \/ \E ans \in ServiceAnswers("GET", abs, blobs) :
             \E body \in IF ans.status \in {StatusOK, StatusPartialContent}
                         THEN {[ok |-> TRUE, kind |-> "-"]} ELSE BodyReads :
                /\ bcall' = BCall("read", path, "sent", ans.status, FALSE,
                                  ReadResponse(ans.status, body.ok, body.kind))
                /\ blobs' = ans.blobs
       /\ UNCHANGED <<root, notBackend>>

\* ---- Backend::write (put_blob_request with the reader as body)
WriteResponseOnlyCreated(status, bodyOk, tkind, size) ==
    IF status = StatusCreated
    THEN IF bodyOk THEN [BOk(NoMeta) EXCEPT !.n = size] ELSE BErr(tkind)
    ELSE ErrorResponse(status, bodyOk, tkind)

\* `match status { CREATED | OK => { consume()?; Ok(args.size()) } _ => Err(..) }`
WriteResponse(status, bodyOk, tkind, size) ==
    IF status \in {StatusCreated, StatusOK}
    THEN IF bodyOk THEN [BOk(NoMeta) EXCEPT !.n = size] ELSE BErr(tkind)
    ELSE ErrorResponse(status, bodyOk, tkind)

BackendWrite ==
    \E path \in NormalizedPaths, size \in WriteSizes :
       LET abs == BuildAbsPath(root, path) IN
       /\ \/ \E f \in RequestFailures :
                /\ bcall' = [BCall("write", path, f.stage, 0, FALSE,
                                   RequestError(f.stage, f.kind))
                                EXCEPT !.size = size]
                /\ blobs' = blobs
          \/ \E ans \in ServiceAnswers("PUT", abs, blobs),
                body \in BodyReads :
                /\ bcall' = [BCall("write", path, "sent", ans.status, FALSE,
                                   WriteResponse(ans.status, body.ok, body.kind, size))
                                EXCEPT !.size = size,
                                       !.body = IF body.ok THEN "ok" ELSE "failed"]
                /\ blobs' = ans.blobs
       /\ UNCHANGED <<root, notBackend>>

\* ---- Backend::list_blobs: the request a DirStream makes for one page; the
\* response is returned as it is
BackendListBlobs ==
    \E path \in NormalizedPaths :
       LET abs == BuildAbsPath(root, path) IN
       /\ \/ \E f \in RequestFailures :
                /\ bcall' = BCall("list_blobs", path, f.stage, 0, FALSE,
                                  RequestError(f.stage, f.kind))
                /\ blobs' = blobs
          \/ \E ans \in ServiceAnswers("LIST", abs, blobs) :
                /\ bcall' = BCall("list_blobs", path, "sent", ans.status, FALSE, BOk(NoMeta))
                /\ blobs' = ans.blobs
       /\ UNCHANGED <<root, notBackend>>

\* ---- Backend::list: `Ok(Box::new(DirStream::new(..)))`; no request is
\* built here, the stream makes its requests (list_blobs) when it is polled
ListStageEager(path) == "sent"

ListStage(path) == "none"

BackendList ==
    \E path \in NormalizedPaths :
       /\ bcall' = BCall("list", path, ListStage(path), 0, FALSE, BOk(NoMeta))
       /\ blobs' = blobs
       /\ UNCHANGED <<root, notBackend>>

\* the backend seen as the inner accessor of a retry layer: every invocation
\* of the method is answered as this call was
BackendAsInner(res) ==
    [fails |-> 0, then |-> IF res.tag = "ok" THEN "Ok" ELSE res.kind]

BackendNext ==
    \/ BackendStat
    \/ BackendDelete
    \/ BackendCreate
    \/ BackendRead
    \/ BackendWrite
    \/ BackendListBlobs
    \/ BackendList

InitBackend ==
    /\ root \in Roots
    /\ blobs = {}
    /\ bcall = None
    /\ opArgs = None
    /\ backoff = <<>>
    /\ mock = [fails |-> 0, then |-> "Ok"]
    /\ op = "none" /\ pc = "idle"
    /\ retry = <<>> /\ dur = 0 /\ e = None
    /\ calls = 0 /\ slept = <<>> /\ result = None /\ readerGiven = 0
    /\ readerFailed = FALSE
    /\ args = None /\ received = <<>>
    /\ stackIn = None /\ stackOut = None
    /\ tasks = [t \in Tasks |-> IdleTask]
    /\ shown = None /\ pairs = <<>> /\ made = None
    /\ innerMeta = None /\ depth = 0 /\ metaResult = None
    /\ builder = None /\ built = None

SpecBackend == InitBackend /\ [][BackendNext]_vars

(***************************************************************************)
(* The azblob Builder.  A String is the sequence of its characters; an     *)
(* Option<String> is <<>> (None) or <<s>> (Some(s)).                       *)
(***************************************************************************)
Some(v) == <<v>>
NoneStr == <<>>
UnwrapOrDefault(o) == IF o = NoneStr THEN <<>> ELSE o[1]

RootStrings      == {<<>>, <<"/">>, <<"r">>, <<"/", "r">>}
ContainerStrings == {<<>>, <<"c">>, <<"d">>}
EndpointStrings  == SeqsUpTo({"e", "/"}, MaxEndpointLen)
AccountStrings   == {<<>>, <<"n">>, <<"k">>}

\* endpoint.trim_end_matches('/')
RECURSIVE TrimEndSlashes(_)
TrimEndSlashes(v) ==
    IF v # <<>> /\ v[Len(v)] = "/" THEN TrimEndSlashes(SubSeq(v, 1, Len(v) - 1)) ELSE v

\* crate::path::normalize_root: no empty segment, a leading and a trailing '/'
RECURSIVE Squeeze(_)
Squeeze(v) ==
    IF v = <<>> THEN <<>>
    ELSE IF Head(v) = "/" /\ (Tail(v) = <<>> \/ Head(Tail(v)) = "/") THEN Squeeze(Tail(v))
    ELSE <<Head(v)>> \o Squeeze(Tail(v))
NormalizeRoot(v) ==
    LET q == Squeeze(v)
        t == IF q # <<>> /\ Head(q) = "/" THEN Tail(q) ELSE q
    IN  IF t = <<>> THEN <<"/">> ELSE <<"/">> \o t \o <<"/">>

\* Builder::default()
DefaultBuilder ==
    [root |-> NoneStr, container |-> <<>>, endpoint |-> NoneStr,
     account_name |-> NoneStr, account_key |-> NoneStr]

\* Builder::root / container / endpoint / account_name / account_key
BuilderRoot(b, v) == IF v # <<>> THEN [b EXCEPT !.root = Some(v)] ELSE b
BuilderContainer(b, v) == [b EXCEPT !.container = v]
BuilderEndpoint(b, v) ==
    IF v # <<>> THEN [b EXCEPT !.endpoint = Some(TrimEndSlashes(v))] ELSE b
BuilderAccountName(b, v) == IF v # <<>> THEN [b EXCEPT !.account_name = Some(v)] ELSE b
BuilderAccountKey(b, v) == IF v # <<>> THEN [b EXCEPT !.account_key = Some(v)] ELSE b

SetRoot ==
    /\ \E v \in RootStrings : builder' = BuilderRoot(builder, v)
    /\ built' = None /\ shown' = None
    /\ UNCHANGED notBuilder

SetContainer ==
    /\ \E v \in ContainerStrings : builder' = BuilderContainer(builder, v)
    /\ built' = None /\ shown' = None
    /\ UNCHANGED notBuilder

SetEndpoint ==
    /\ \E v \in EndpointStrings : builder' = BuilderEndpoint(builder, v)
    /\ built' = None /\ shown' = None
    /\ UNCHANGED notBuilder

SetAccountName ==
    /\ \E v \in AccountStrings : builder' = BuilderAccountName(builder, v)
    /\ built' = None /\ shown' = None
    /\ UNCHANGED notBuilder

SetAccountKey ==
    /\ \E v \in AccountStrings : builder' = BuilderAccountKey(builder, v)
    /\ built' = None /\ shown' = None
    /\ UNCHANGED notBuilder

DebugFmtShowsName(b) ==
    [root |-> b.root, container |-> b.container, endpoint |-> b.endpoint,
     account_name |-> b.account_name,
     account_key |-> IF b.account_key # NoneStr THEN "<redacted>" ELSE "absent"]

\* impl Debug for Builder: the fields written to the debug_struct ("absent": the
\* field is not written)
DebugFmt(b) ==
    [root |-> b.root, container |-> b.container, endpoint |-> b.endpoint,
     account_name |-> IF b.account_name # NoneStr THEN "<redacted>" ELSE "absent",
     account_key |-> IF b.account_key # NoneStr THEN "<redacted>" ELSE "absent"]

\* format!("{:?}", builder)
FormatDebug ==
    /\ shown' = [tag |-> "debug", cfg |-> builder, out |-> DebugFmt(builder)]
    /\ built' = None
    /\ UNCHANGED <<builder, notBuilder>>

NoBackend == [root |-> <<>>, container |-> <<>>, endpoint |-> <<>>,
              credentials |-> "-", _account_name |-> <<>>]

\* Err(other(BackendError::new({field: ""}, anyhow!("<field> is empty"))))
BuildError(b, field) ==
    [tag |-> "err", kind |-> "Other", field |-> field, cfg |-> b, backend |-> NoBackend]

ContainerMissingNever(b) == FALSE

\* `match self.container.is_empty()`
ContainerMissing(b) == b.container = <<>>

\* `match &self.endpoint { .. None => Err(..) }`
EndpointMissing(b) == b.endpoint = NoneStr

\* Builder::build: its result, given whether the signer can be built
BuildResult(b, signerOk) ==
    IF ContainerMissing(b) THEN BuildError(b, "container")
    ELSE IF EndpointMissing(b) THEN BuildError(b, "endpoint")
    ELSE IF ~signerOk THEN BuildError(b, "signer")
    ELSE [tag |-> "ok", kind |-> "-", field |-> "-", cfg |-> b,
          backend |-> [root |-> NormalizeRoot(UnwrapOrDefault(b.root)),
                       container |-> b.container,
                       endpoint |-> b.endpoint[1],
                       credentials |->
                           IF b.account_name # NoneStr /\ b.account_key # NoneStr
                           THEN "configured" ELSE "environment",
                       _account_name |-> UnwrapOrDefault(b.account_name)]]

\* Builder::build: what it leaves in the builder (self.root.take() comes first;
\* mem::take(&mut self.account_name) only when the Backend is returned)
BuilderAfterBuild(b, res) ==
    IF res.tag = "ok" THEN [b EXCEPT !.root = NoneStr, !.account_name = NoneStr]
    ELSE [b EXCEPT !.root = NoneStr]

Build ==
    /\ \E signerOk \in BOOLEAN :
          /\ built' = BuildResult(builder, signerOk)
          /\ builder' = BuilderAfterBuild(builder, BuildResult(builder, signerOk))
    /\ shown' = None
    /\ UNCHANGED notBuilder

BuilderNext ==
    \/ SetRoot
    \/ SetContainer
    \/ SetEndpoint
    \/ SetAccountName
    \/ SetAccountKey
    \/ FormatDebug
    \/ Build

InitBuilder ==
    /\ builder = DefaultBuilder
    /\ built = None
    /\ root = <<"/">> /\ blobs = {} /\ bcall = None
    /\ opArgs = None
    /\ backoff = <<>>
    /\ mock = [fails |-> 0, then |-> "Ok"]
    /\ op = "none" /\ pc = "idle"
    /\ retry = <<>> /\ dur = 0 /\ e = None
    /\ calls = 0 /\ slept = <<>> /\ result = None /\ readerGiven = 0
    /\ readerFailed = FALSE
    /\ args = None /\ received = <<>>
    /\ stackIn = None /\ stackOut = None
    /\ tasks = [t \in Tasks |-> IdleTask]
    /\ shown = None /\ pairs = <<>> /\ made = None
    /\ innerMeta = None /\ depth = 0 /\ metaResult = None

SpecBuilder == InitBuilder /\ [][BuilderNext]_vars

(***************************************************************************)
(* Backend::from_iter: a Builder::default(), one setter call per pair with *)
(* a recognized key, then build().                                         *)
(***************************************************************************)
KnownKeys == {"root", "container", "endpoint", "account_name", "account_key"}
IterKeys == KnownKeys \cup {"region"}
IterValues == {<<>>, <<"/">>, <<"e", "/">>}
Pairs == [k : IterKeys, v : IterValues]
PairStreams == SeqsUpTo(Pairs, MaxPairs)

ApplyPairUnknownIsContainer(b, kv) ==
    IF kv.k = "root" THEN BuilderRoot(b, kv.v)
    ELSE IF kv.k = "endpoint" THEN BuilderEndpoint(b, kv.v)
    ELSE IF kv.k = "account_name" THEN BuilderAccountName(b, kv.v)
    ELSE IF kv.k = "account_key" THEN BuilderAccountKey(b, kv.v)
    ELSE BuilderContainer(b, kv.v)

\* the body of `for (k, v) in it`: `match k.as_ref() { .. _ => continue }`
ApplyPair(b, kv) ==
    IF kv.k = "root" THEN BuilderRoot(b, kv.v)
    ELSE IF kv.k = "container" THEN BuilderContainer(b, kv.v)
    ELSE IF kv.k = "endpoint" THEN BuilderEndpoint(b, kv.v)
    ELSE IF kv.k = "account_name" THEN BuilderAccountName(b, kv.v)
    ELSE IF kv.k = "account_key" THEN BuilderAccountKey(b, kv.v)
    ELSE b

\* the builder after the loop over the pairs
RECURSIVE FromIterBuilder(_, _)
FromIterBuilder(b, ps) ==
    IF ps = <<>> THEN b ELSE FromIterBuilder(ApplyPair(b, Head(ps)), Tail(ps))

\* Backend::from_iter(it), given whether the signer can be built
FromIter(ps, signerOk) == BuildResult(FromIterBuilder(DefaultBuilder, ps), signerOk)

FromIterCall ==
    /\ \E signerOk \in BOOLEAN :
          made' = [tag |-> "made", signerOk |-> signerOk, res |-> FromIter(pairs, signerOk)]
    /\ UNCHANGED <<pairs, notIter>>

IterNext ==
    \/ FromIterCall

InitIter ==
    /\ pairs \in PairStreams
    /\ made = None
    /\ builder = None /\ built = None /\ shown = None
    /\ root = <<"/">> /\ blobs = {} /\ bcall = None
    /\ opArgs = None
    /\ backoff = <<>>
    /\ mock = [fails |-> 0, then |-> "Ok"]
    /\ op = "none" /\ pc = "idle"
    /\ retry = <<>> /\ dur = 0 /\ e = None
    /\ calls = 0 /\ slept = <<>> /\ result = None /\ readerGiven = 0
    /\ readerFailed = FALSE
    /\ args = None /\ received = <<>>
    /\ stackIn = None /\ stackOut = None
    /\ tasks = [t \in Tasks |-> IdleTask]
    /\ innerMeta = None /\ depth = 0 /\ metaResult = None

SpecIter == InitIter /\ [][IterNext]_vars

(***************************************************************************)
(*                               CLAIMS                                    *)
(***************************************************************************)
\* every inner attempt the call has made so far failed with Interrupted
AllInterrupted == \A k \in 1..calls : Retryable(InnerResult(mock, k))
\* the inner accessor fails, at once, with an error that is not Interrupted
FailsNotInterrupted == mock.fails = 0 /\ mock.then \notin {"Ok", "Interrupted"}
Finished == pc \in {"done", "panic"}

\* C1: an async retried operation whose every inner attempt fails with
\* Interrupted, under a schedule of N delays, invokes the inner accessor
\* exactly 1 + N times and then returns an error.
C1_AsyncExhaustsSchedule ==
    ( /\ pc = "done"
      /\ op \in {"create", "read", "stat", "delete", "list",
                 "create_multipart", "complete_multipart", "abort_multipart"}
      /\ AllInterrupted )
    => /\ calls = 1 + Len(backoff)
       /\ IsErr(result)
       /\ slept = backoff

C1_Witness ==
    /\ pc = "done" /\ op = "read" /\ AllInterrupted
    /\ Len(backoff) = MaxDelays /\ calls = MaxDelays + 1 /\ IsErr(result)

\* C2 (as claimed): for every retried operation, async or blocking, and every
\* schedule, an inner accessor failing with a non-Interrupted error is invoked
\* exactly once, no wait is made, and the call returns that error.
C2_NotRetryableOnce ==
    ( /\ op \in {"create", "read", "stat", "delete", "list",
                 "create_multipart", "complete_multipart", "abort_multipart",
                 "blocking_create", "blocking_read", "blocking_stat",
                 "blocking_delete", "blocking_list"}
      /\ FailsNotInterrupted )
    => /\ slept = <<>> /\ pc # "wait"
       /\ calls <= 1
       /\ Finished => (pc = "done" /\ calls = 1 /\ result = InnerResult(mock, 1))

\* C3: write, write_multipart, blocking_write, presign and metadata invoke the
\* inner accessor exactly once whatever it answers, return its answer unchanged,
\* never wait, and hand the body reader over at most once.
C3_PassThroughOnce ==
    op \in {"write", "write_multipart", "blocking_write", "presign", "metadata"}
    => /\ pc = "done"
       /\ calls = 1
       /\ slept = <<>>
       /\ readerGiven <= 1
       /\ op # "metadata" => result = InnerResult(mock, 1)

C3_Witness ==
    /\ pc = "done" /\ op = "write" /\ mock.then = "Interrupted"
    /\ calls = 1 /\ readerGiven = 1 /\ result = Err("Interrupted", 1)

\* C4: a retried call, async or blocking, under a schedule of N delays never
\* makes more than 1 + N inner invocations, whatever the inner accessor answers.
C4_AtMostOnePlusN ==
    op \in {"create", "read", "stat", "delete", "list",
            "create_multipart", "complete_multipart", "abort_multipart",
            "blocking_create", "blocking_read", "blocking_stat",
            "blocking_delete", "blocking_list"}
    => calls <= 1 + Len(backoff)

C4_Witness ==
    /\ op = "stat" /\ Len(backoff) = MaxDelays /\ calls = 1 + Len(backoff)

C6_CapabilitiesPreserved ==
    metaResult # None =>
        /\ metaResult.meta.capabilities \subseteq innerMeta.capabilities
        /\ metaResult.meta.capabilities = innerMeta.capabilities

C6_Witness ==
    /\ metaResult # None
    /\ metaResult.layers = MaxDepth
    /\ innerMeta.capabilities = {"Read", "Write", "List"}
    /\ metaResult.meta.capabilities = {"Read", "Write", "List"}

\* the last backend call was `o` and its request was answered by the service
Answered(o) == bcall.tag = "call" /\ bcall.op = o /\ bcall.stage = "sent" /\ bcall.sends = 1

\* C7: stat on "/" returns DIR metadata, signs nothing and sends nothing,
\* whatever the root and whatever the service holds or would answer.
C7_StatRootIsDirNoIO ==
    (bcall.tag = "call" /\ bcall.op = "stat" /\ bcall.path = <<"/">>)
    => /\ bcall.result.tag = "ok"
       /\ bcall.result.meta.mode = "DIR"
       /\ bcall.signs = 0 /\ bcall.sends = 0

C7_Witness ==
    /\ bcall.tag = "call" /\ bcall.op = "stat" /\ bcall.path = <<"/">>
    /\ root = <<"/", "r", "/">> /\ <<"r", "/">> \notin blobs /\ blobs # {}
    /\ bcall.result.meta.mode = "DIR" /\ bcall.sends = 0

\* C8 (as claimed): stat maps the HEAD response by its status alone: 200 gives
\* metadata, DIR for a path ending with '/' and FILE otherwise; 404 on a path
\* ending with '/' gives DIR metadata; 404 on another path, and every other
\* status, gives an error.
C8_StatByStatus ==
    Answered("stat") =>
        IF bcall.status = StatusOK
        THEN /\ bcall.result.tag = "ok"
             /\ bcall.result.meta.mode = IF EndsWithSlash(bcall.path) THEN "DIR" ELSE "FILE"
        ELSE IF bcall.status = StatusNotFound /\ EndsWithSlash(bcall.path)
        THEN bcall.result.tag = "ok" /\ bcall.result.meta.mode = "DIR"
        ELSE bcall.result.tag = "err"

\* C8 (amended): as claimed, except that a 200 response gives that metadata
\* only when none of its Content-Length, ETag and Last-Modified headers is
\* malformed, and gives an error when one is.
C8_StatByStatusAndHeaders ==
    Answered("stat") =>
        IF bcall.status = StatusOK
        THEN IF "bad" \in {bcall.headers.content_length, bcall.headers.etag,
                           bcall.headers.last_modified}
             THEN bcall.result.tag = "err"
             ELSE /\ bcall.result.tag = "ok"
                  /\ bcall.result.meta.mode =
                        IF EndsWithSlash(bcall.path) THEN "DIR" ELSE "FILE"
        ELSE IF bcall.status = StatusNotFound /\ EndsWithSlash(bcall.path)
        THEN bcall.result = BOk([NoMeta EXCEPT !.mode = "DIR"])
        ELSE bcall.result.tag = "err"

C8_Witness ==
    /\ Answered("stat") /\ bcall.status = StatusNotFound
    /\ bcall.path = <<"a", "/">>
    /\ bcall.result.tag = "ok" /\ bcall.result.meta.mode = "DIR"

\* C9: delete returns Ok exactly when the service answers 202 or 404, so a
\* delete of a path right after a successful delete of it (the blob now absent)
\* succeeds too; every other status gives an error.
C9_DeleteIdempotent ==
    Answered("delete") =>
        /\ bcall.status \in {StatusAccepted, StatusNotFound} => bcall.result.tag = "ok"
        /\ bcall.status \notin {StatusAccepted, StatusNotFound} => bcall.result.tag = "err"

C9_Witness ==
    /\ Answered("delete") /\ bcall.again
    /\ bcall.status = StatusNotFound /\ bcall.result.tag = "ok"
    /\ BuildAbsPath(root, bcall.path) \notin blobs

\* C10: after any sequence of setter calls, build fails when the container is
\* empty, naming the container, and fails when the container is set but the
\* endpoint never was, naming the endpoint; a failed build produces no Backend.
C10_BuildNeedsContainerAndEndpoint ==
    built.tag # "none" =>
        /\ built.cfg.container = <<>> =>
              built.tag = "err" /\ built.field = "container"
        /\ built.cfg.container # <<>> /\ built.cfg.endpoint = NoneStr =>
              built.tag = "err" /\ built.field = "endpoint"
        /\ built.tag = "err" => built.backend = NoBackend

C10_Witness ==
    /\ built.tag = "err" /\ built.field = "container"
    /\ built.cfg.container = <<>> /\ built.cfg.endpoint = Some(<<"e">>)
    /\ built.cfg.account_name # NoneStr

\* C11: when the last inner attempt of a retried call, async or blocking, failed
\* with Interrupted and the call has returned (its schedule is used up), the
\* call returned Err carrying the error of that last attempt: not the error of
\* an earlier attempt and not another error.
C11_LastErrorReturned ==
    ( /\ pc = "done"
      /\ op \in {"create", "read", "stat", "delete", "list",
                 "create_multipart", "complete_multipart", "abort_multipart",
                 "blocking_create", "blocking_read", "blocking_stat",
                 "blocking_delete", "blocking_list"}
      /\ calls >= 1
      /\ Retryable(InnerResult(mock, calls)) )
    => /\ retry = <<>>
       /\ result = Err("Interrupted", calls)
       /\ \A k \in 1..(calls - 1) : result # InnerResult(mock, k)

C11_Witness ==
    /\ pc = "done" /\ op = "blocking_delete"
    /\ calls = MaxDelays /\ Len(backoff) = MaxDelays
    /\ result = Err("Interrupted", MaxDelays) /\ e = result

\* C12: in a retried call, async or blocking, an inner attempt that returns Ok
\* ends the call at once: the call returns that Ok value, the inner accessor
\* has been invoked exactly k times when the k-1 attempts before it failed with
\* Interrupted, only the k-1 waits between them were made and none follows.
\* Whenever k is at most the number of delays of the schedule, the call does
\* end that way.  A failure of the reader that a successful read returned
\* causes no further inner invocation.
C12_ReturnsOnFirstOk ==
    op \in {"create", "read", "stat", "delete", "list",
            "create_multipart", "complete_multipart", "abort_multipart",
            "blocking_create", "blocking_read", "blocking_stat",
            "blocking_delete", "blocking_list"}
    => /\ (calls >= 1 /\ pc # "attempt" /\ IsOk(InnerResult(mock, calls)))
            => /\ pc = "done"
               /\ result = Ok(calls)
               /\ calls = mock.fails + 1
               /\ Len(slept) = calls - 1
       /\ (pc \in {"done", "panic"} /\ mock.then = "Ok" /\ mock.fails + 1 <= Len(backoff))
            => result = Ok(mock.fails + 1) /\ calls = mock.fails + 1
       /\ readerFailed
            => pc = "done" /\ result = Ok(calls) /\ calls = mock.fails + 1

C12_Witness ==
    /\ op = "blocking_read" /\ pc = "done" /\ readerFailed
    /\ mock = [fails |-> 2, then |-> "Ok"]
    /\ calls = 3 /\ result = Ok(3) /\ slept = SubSeq(backoff, 1, 2)

\* what the async form of a retried method does from its n-th attempt on, with
\* `it` what is left of its schedule and `waits` sleeps made: the numbers of
\* inner invocations and of waits, and the result
RECURSIVE AsyncRun(_, _, _, _)
AsyncRun(m, it, n, waits) ==
    LET a == AsyncAfter(InnerResult(m, n + 1), it)
    IN  IF a.pc = "done"
        THEN [calls |-> n + 1, waits |-> waits, result |-> a.result]
        ELSE AsyncRun(m, a.retry, n + 1, waits + 1)

\* C13 (as claimed): a blocking retried call makes as many inner invocations
\* and as many waits, and returns the same result, as the async form of the
\* method does for the same schedule and the same inner results.
C13_BlockingMatchesAsync ==
    ( /\ pc \in {"done", "panic"}
      /\ op \in {"blocking_create", "blocking_read", "blocking_stat",
                 "blocking_delete", "blocking_list"} )
    => [calls |-> calls, waits |-> Len(slept), result |-> result]
          = AsyncRun(mock, backoff, 0, 0)

\* C14 (as claimed): a retried call, async or blocking, takes no delay from
\* its schedule before its first inner attempt; it waits only after an attempt
\* that failed with Interrupted; and every wait is followed by another attempt,
\* so a call that has returned made one wait fewer than attempts.
C14_AttemptThenWaitThenAttempt ==
    op \in {"create", "read", "stat", "delete", "list",
            "create_multipart", "complete_multipart", "abort_multipart",
            "blocking_create", "blocking_read", "blocking_stat",
            "blocking_delete", "blocking_list"}
    => /\ calls = 0 => (retry = backoff /\ dur = 0 /\ slept = <<>>)
       /\ pc = "wait" => (calls >= 1 /\ Retryable(InnerResult(mock, calls)))
       /\ pc \in {"done", "panic"} => (calls >= 1 /\ Len(slept) = calls - 1)

\* what the blocking form of a retried method does from its loop head on, after
\* n attempts and `waits` sleeps, with `it` what is left of its schedule
RECURSIVE BlockingRun(_, _, _, _, _)
BlockingRun(m, it, err, n, waits) ==
    LET h == BlockingHead(it, err)
        a == BlockingAfter(InnerResult(m, n + 1), err)
    IN  IF h.pc # "attempt"
        THEN [calls |-> n, waits |-> waits, result |-> h.result]
        ELSE IF a.pc = "done"
        THEN [calls |-> n + 1, waits |-> waits, result |-> a.result]
        ELSE BlockingRun(m, h.retry, a.e, n + 1, waits + 1)

\* what a call of method o does when it is the only call the accessor ever gets
AloneRun(o, m, b) ==
    IF Policy(o) = "async_retry" THEN AsyncRun(m, b, 0, 0)
    ELSE BlockingRun(m, b, None, 0, 0)

\* C15: every retried call, whatever calls were made before it or are in
\* flight beside it on the same accessor, starts with the whole stored schedule
\* and ends as it would if it were the only call ever made (same inner
\* invocations, same waits, same result); the delays it has taken are its own;
\* and no step of any call changes the schedule stored in the layer.
C15_FreshSchedulePerCall ==
    /\ [](\A t \in Tasks :
            LET c == tasks[t] IN
            /\ (c.pc \in {"attempt", "head"} /\ c.calls = 0 /\ c.dur = 0) => c.retry = backoff
            /\ c.pc \in {"attempt", "wait", "head"} =>
                  Len(c.retry) + Len(c.slept) + (IF c.dur # 0 /\ c.pc # "head" THEN 1 ELSE 0)
                     = Len(backoff)
            /\ c.pc \in {"done", "panic"} =>
                  [calls |-> c.calls, waits |-> Len(c.slept), result |-> c.result]
                     = AloneRun(c.op, c.mock, backoff))
    /\ [][backoff' = backoff]_vars

C15_Witness ==
    /\ Len(backoff) = MaxDelays
    /\ tasks[1].op = "list" /\ tasks[1].pc = "done" /\ tasks[1].calls = 1 + MaxDelays
    /\ tasks[2].op = "blocking_list" /\ tasks[2].pc = "wait" /\ tasks[2].calls = 2
    /\ Len(tasks[2].retry) = MaxDelays - 2

\* C16: once an async retried call is cancelled, while awaiting the inner call
\* or while sleeping, it makes no further inner invocation and no further wait
\* and holds no schedule; the task's next call starts from the idle state and
\* the stored schedule, and every finished call beside or after it ends as if
\* it were the only call ever made.
C16_CancelStopsTheCall ==
    /\ [](\A t \in Tasks :
            /\ tasks[t].cancelled =>
                  tasks[t].pc = "cancelled" /\ tasks[t].retry = <<>> /\ tasks[t].dur = 0
            /\ (\E u \in Tasks : tasks[u].cancelled) /\ tasks[t].pc = "done" =>
                  tasks[t].calls = AloneRun(tasks[t].op, tasks[t].mock, backoff).calls)
    /\ [][\A t \in Tasks :
             tasks[t].cancelled =>
                /\ tasks'[t] \in {tasks[t], IdleTask}
                /\ backoff' = backoff]_vars

C16_Witness ==
    /\ Len(backoff) = MaxDelays
    /\ tasks[1].cancelled /\ tasks[1].op = "list" /\ tasks[1].calls = 2
    /\ Len(tasks[1].slept) = 1
    /\ tasks[2].op = "list" /\ tasks[2].pc = "done" /\ tasks[2].calls = 1 + MaxDelays

\* C17 (as claimed): with a finite schedule and an inner accessor whose every
\* invocation returns, a retried call, async or blocking, that has been entered
\* eventually returns Ok or Err (Success or Failure).
C17_EveryCallReturns ==
    ( /\ op \in {"create", "read", "stat", "delete", "list",
                 "create_multipart", "complete_multipart", "abort_multipart",
                 "blocking_create", "blocking_read", "blocking_stat",
                 "blocking_delete", "blocking_list"}
      /\ pc \in {"attempt", "wait", "head"} )
    ~> (pc = "done" /\ (IsOk(result) \/ IsErr(result)))

\* C18: in create, read, write, stat, delete and list_blobs a request is sent
\* only after it was signed successfully; when signing fails nothing is sent
\* and the operation returns an error whose kind is not Interrupted, which a
\* retry layer above does not retry.
C18_SignedBeforeSent ==
    (bcall.tag = "call"
       /\ bcall.op \in {"create", "read", "write", "stat", "delete", "list_blobs"})
    => /\ bcall.sends = 1 => (bcall.signs = 1 /\ bcall.stage \in {"send_fail", "sent"})
       /\ bcall.stage = "sign_fail" =>
             /\ bcall.sends = 0 /\ bcall.status = 0
             /\ bcall.result.tag = "err"
             /\ bcall.result.kind # "Interrupted"
             /\ ~Retryable(Err(bcall.result.kind, 1))

C18_Witness ==
    /\ bcall.tag = "call" /\ bcall.op = "write" /\ bcall.stage = "sign_fail"
    /\ bcall.signs = 1 /\ bcall.sends = 0
    /\ bcall.result = BErr("Other")

\* C19: after any sequence of setter calls, the Debug output of a Builder whose
\* account_name and account_key are both set is the output of every Builder
\* that differs from it only in the values of these two, and shows neither
\* value.
C19_DebugRedactsCredentials ==
    ( /\ shown.tag = "debug"
      /\ shown.cfg.account_name # NoneStr /\ shown.cfg.account_key # NoneStr )
    => /\ \A n, k \in AccountStrings \ {<<>>} :
             DebugFmt([shown.cfg EXCEPT !.account_name = Some(n), !.account_key = Some(k)])
                = shown.out
       /\ shown.out.account_name = "<redacted>"
       /\ shown.out.account_key = "<redacted>"

C19_Witness ==
    /\ shown.tag = "debug"
    /\ shown.cfg.account_name = Some(<<"n">>) /\ shown.cfg.account_key = Some(<<"k">>)
    /\ shown.cfg.endpoint = Some(<<"e">>) /\ shown.cfg.container = <<"c">>
    /\ shown.out.account_name = "<redacted>" /\ shown.out.endpoint = Some(<<"e">>)

\* the pairs of a stream whose key from_iter recognizes, in their order
KnownOnly(ps) == SelectSeq(ps, LAMBDA kv : kv.k \in KnownKeys)

C21_ArgsUnchanged ==
    (op # "none" /\ op # "metadata")
    => /\ Len(received) = calls
       /\ \A i \in 1..Len(received) :
             /\ received[i] = args
             /\ received[i].path = args.path /\ received[i].payload = args.payload

C21_Witness ==
    /\ op = "blocking_stat" /\ pc = "done" /\ calls = MaxDelays
    /\ args.payload = 1
    /\ received = [i \in 1..MaxDelays |-> args]

\* C22 (as claimed): create and write return Ok exactly when the response
\* status is 201 or 200, a successful write returning the size declared in its
\* OpWrite; read returns a reader exactly when the status is 200 or 206; every
\* other status gives an error.
C22_CreateWriteReadByStatus ==
    /\ (Answered("create") \/ Answered("write")) =>
          /\ bcall.result.tag = "ok" <=> bcall.status \in {StatusCreated, StatusOK}
          /\ bcall.result.tag \in {"ok", "err"}
          /\ (bcall.op = "write" /\ bcall.result.tag = "ok") => bcall.result.n = bcall.size
    /\ Answered("read") =>
          /\ bcall.result.tag = "ok" <=> bcall.status \in {StatusOK, StatusPartialContent}
          /\ bcall.result.tag \in {"ok", "err"}

\* C22 (amended): create and write return Ok exactly when the response status
\* is 201 or 200 and the body of that response was consumed without error
\* (a failure while consuming it is returned as the error), a successful write
\* returning the size declared in its OpWrite; read is as claimed.
C22_CreateWriteNeedBodyConsumed ==
    /\ (Answered("create") \/ Answered("write")) =>
          /\ bcall.result.tag = "ok" <=>
                (bcall.status \in {StatusCreated, StatusOK} /\ bcall.body = "ok")
          /\ bcall.result.tag \in {"ok", "err"}
          /\ (bcall.op = "write" /\ bcall.result.tag = "ok") => bcall.result.n = bcall.size
    /\ Answered("read") =>
          /\ bcall.result.tag = "ok" <=> bcall.status \in {StatusOK, StatusPartialContent}
          /\ bcall.result.tag \in {"ok", "err"}

C22_Witness ==
    /\ Answered("write") /\ bcall.status = StatusOK /\ bcall.body = "ok"
    /\ bcall.size = 1 /\ bcall.result.tag = "ok" /\ bcall.result.n = 1

\* C23: for every input they accept, the getters of OpWriteMultipart,
\* OpCompleteMultipart and OpAbortMultipart return the arguments the constructor
\* was called with; parts() returns the parts supplied, as many and in the
\* same order.
C23_GettersReturnArguments ==
    ( /\ opArgs.tag = "ok"
      /\ opArgs.op \in {"WriteMultipart", "CompleteMultipart", "AbortMultipart"} )
    => /\ Getters(opArgs).path = opArgs.given.path
       /\ Getters(opArgs).upload_id = opArgs.given.upload_id
       /\ opArgs.op = "WriteMultipart" =>
             /\ Getters(opArgs).part_number = opArgs.given.part_number
             /\ Getters(opArgs).size = opArgs.given.size
       /\ opArgs.op = "CompleteMultipart" =>
             /\ Len(Getters(opArgs).parts) = Len(opArgs.given.parts)
             /\ \A i \in 1..Len(opArgs.given.parts) :
                   Getters(opArgs).parts[i] = opArgs.given.parts[i]

C23_Witness ==
    /\ opArgs.tag = "ok" /\ opArgs.op = "CompleteMultipart"
    /\ opArgs.given.parts = << [part_number |-> 2, etag |-> "e"],
                               [part_number |-> 1, etag |-> "e"] >>
    /\ Getters(opArgs).parts = opArgs.given.parts

\* C24: no operation of the retry layer panics, whatever the inner accessor
\* answers and whatever the schedule is, the schedule of zero delays included.
C24_NoOperationPanics == pc # "panic"

\* C25: Backend list signs nothing and sends nothing when it is called and
\* always returns Ok (the lazy stream); a retry layer wrapped around the
\* backend therefore invokes the inner list exactly once per call, waits for
\* no delay and returns Ok, whatever its schedule.
C25_ListIsLazy ==
    (bcall.tag = "call" /\ bcall.op = "list")
    => /\ bcall.signs = 0 /\ bcall.sends = 0
       /\ bcall.result.tag = "ok"
       /\ \A b \in Schedules :
             LET run == AsyncRun(BackendAsInner(bcall.result), b, 0, 0)
             IN  run.calls = 1 /\ run.waits = 0 /\ run.result.tag = "ok"

C25_Witness ==
    /\ bcall.tag = "call" /\ bcall.op = "list" /\ bcall.path = <<"a", "/">>
    /\ blobs # {}
    /\ bcall.stage = "none" /\ bcall.result.tag = "ok"
    /\ \E b \in Schedules :
          Len(b) = MaxDelays /\ AsyncRun(BackendAsInner(bcall.result), b, 0, 0).calls = 1

\* C26: build is repeatable: right after a build (no setter called since) the
\* Builder holds the configuration it held before the build, and building
\* again gives the same outcome: Ok or the same error, the same root, container
\* and endpoint, and the same use of the configured credentials.
C26_BuildRepeatable ==
    built.tag \in {"ok", "err"}
    => /\ builder = built.cfg
       /\ \A signerOk \in BOOLEAN :
             LET first == BuildResult(built.cfg, signerOk)
                 again == BuildResult(builder, signerOk)
             IN  /\ again.tag = first.tag /\ again.field = first.field
                 /\ again.backend = first.backend

\* the value an option holds ("" when it holds none); the last non-empty
\* value a stream of setter calls supplied for an option ("" when none)
StoredValue(b, k) ==
    IF k = "container" THEN b.container ELSE UnwrapOrDefault(b[k])

RECURSIVE LastNonEmpty(_, _)
LastNonEmpty(ps, k) ==
    IF ps = <<>> THEN <<>>
    ELSE LET kv == ps[Len(ps)]
         IN  IF kv.k = k /\ kv.v # <<>> THEN kv.v
             ELSE LastNonEmpty(SubSeq(ps, 1, Len(ps) - 1), k)

\* C27: for each of root, container, endpoint, account_name and account_key,
\* a setter call with the empty string leaves the Builder as it was, so after
\* a sequence of setter calls each option holds the last non-empty value
\* supplied for it (the endpoint without its trailing slashes).
C27_EmptyValueChangesNothing ==
    made.tag = "made"
    => /\ \A i \in 1..Len(pairs) :
             pairs[i].v = <<>>
             => FromIterBuilder(DefaultBuilder, SubSeq(pairs, 1, i))
                  = FromIterBuilder(DefaultBuilder, SubSeq(pairs, 1, i - 1))
       /\ \A k \in KnownKeys :
             StoredValue(made.res.cfg, k)
               = IF k = "endpoint" THEN TrimEndSlashes(LastNonEmpty(pairs, k))
                 ELSE LastNonEmpty(pairs, k)

(***************************************************************************)
(* Two retry layers stacked: RetryLayer(outer).layer(RetryLayer(inner)     *)
(* .layer(backend)).  The caller sees the outer RetryAccessor, whose inner  *)
(* accessor is the inner RetryAccessor, whose inner accessor is the         *)
(* backend.  The backend answers its k-th invocation by InnerResult(m, k).  *)
(***************************************************************************)
StackOps == {"create", "read", "write"}
StackInputs == [op : StackOps, mock : Mocks, outer : Schedules, inner : Schedules]

InnerLayerCallOnce(o, m, b, n) ==
    [calls |-> n + 1, waits |-> 0, result |-> InnerResult(m, n + 1)]

\* one call of method o on the RetryAccessor that wraps the backend, the
\* backend having been invoked n times before: write delegates, create and
\* read run the retry loop on a fresh clone of the layer's schedule
InnerLayerCall(o, m, b, n) ==
    IF Policy(o) = "pass"
    THEN [calls |-> n + 1, waits |-> 0, result |-> InnerResult(m, n + 1)]
    ELSE AsyncRun(m, b, n, 0)

\* the retry loop of the outer RetryAccessor: each attempt is one call of the
\* inner RetryAccessor
RECURSIVE OuterRun(_, _, _, _, _, _)
OuterRun(o, m, it, b, n, waits) ==
    LET attempt == InnerLayerCall(o, m, b, n)
        a == AsyncAfter(attempt.result, it)
    IN  IF a.pc = "done"
        THEN [calls |-> attempt.calls, waits |-> waits, result |-> a.result]
        ELSE OuterRun(o, m, a.retry, b, attempt.calls, waits + 1)

\* one call of method o on the outer RetryAccessor
StackedCall(o, m, outer, inner) ==
    IF Policy(o) = "pass"
    THEN InnerLayerCall(o, m, inner, 0)
    ELSE OuterRun(o, m, outer, inner, 0, 0)

CallStacked ==
    /\ stackOut = None
    /\ stackOut' = [tag |-> "stacked",
                    run |-> StackedCall(stackIn.op, stackIn.mock,
                                        stackIn.outer, stackIn.inner)]
    /\ UNCHANGED <<stackIn, notStack>>

StackNext ==
    \/ CallStacked

InitStack ==
    /\ stackIn \in StackInputs
    /\ stackOut = None
    /\ pairs = <<>> /\ made = None
    /\ builder = None /\ built = None /\ shown = None
    /\ root = <<"/">> /\ blobs = {} /\ bcall = None
    /\ opArgs = None
    /\ backoff = <<>>
    /\ mock = [fails |-> 0, then |-> "Ok"]
    /\ op = "none" /\ pc = "idle"
    /\ retry = <<>> /\ dur = 0 /\ e = None
    /\ calls = 0 /\ slept = <<>> /\ result = None /\ readerGiven = 0
    /\ readerFailed = FALSE
    /\ args = None /\ received = <<>>
    /\ tasks = [t \in Tasks |-> IdleTask]
    /\ innerMeta = None /\ depth = 0 /\ metaResult = None

SpecStack == InitStack /\ [][StackNext]_vars

\* C28: with an outer retry layer of N1 delays over an inner retry layer of
\* N2 delays, an async retried method on a backend that fails with Interrupted
\* on every invocation invokes the backend exactly (1 + N1) * (1 + N2) times
\* (and returns that error), and write invokes the backend exactly once.
C28_StackingMultiplies ==
    stackOut.tag = "stacked"
    => /\ ( /\ stackIn.op \in AsyncRetryOps
            /\ stackIn.mock.then = "Interrupted" )
          => /\ stackOut.run.calls = (1 + Len(stackIn.outer)) * (1 + Len(stackIn.inner))
             /\ stackOut.run.result.tag = "err"
             /\ stackOut.run.result.kind = "Interrupted"
       /\ stackIn.op = "write" => stackOut.run.calls = 1

C28_Witness ==
    /\ stackOut.tag = "stacked"
    /\ stackIn.op = "read" /\ stackIn.mock.then = "Interrupted"
    /\ Len(stackIn.outer) = MaxDelays /\ Len(stackIn.inner) = MaxDelays - 1
    /\ stackOut.run.calls = (1 + MaxDelays) * MaxDelays
    /\ stackOut.run.waits = MaxDelays

====
